---------------------------- MODULE Spec2Model ----------------------------
(***************************************************************************)
(* A model of tcp.h (classes tcp::connection, tcp::server, tcp::client)    *)
(* and of the two demonstration programs test_server.cc / test_client.cc.  *)
(*                                                                         *)
(* Two processes, "srv" and "cli", each with its own descriptor table,     *)
(* hold one instance each (a tcp::server resp. a tcp::client).  The kernel *)
(* (descriptor tables, the listening port, the TCP connections with their  *)
(* in-flight and arrived bytes) is the variable ker.                       *)
(***************************************************************************)
EXTENDS Integers, Sequences, FiniteSets, TLC

(***************************************************************************)
(* Bounds of the model.                                                    *)
(***************************************************************************)
MaxFd    == 5   \* descriptor numbers are 0..MaxFd (the table size limit)
MaxConn  == 2   \* connections ever established
MaxServers == 1 \* server instances constructed by process "srv"
MaxClients == 2 \* client instances constructed by process "cli"
MaxBytes == 3   \* bytes the client writes on a connection (StreamSpec)
MaxReply == 1   \* bytes the server writes on a connection (Spec)
MaxLen   == 2   \* longest data / largest n handed to read and write
DemoN    == 3   \* N of the demonstration client (argv[1])

Procs == {"srv", "cli"}
Peer(p) == IF p = "srv" THEN "cli" ELSE "srv"
FDs == 0..MaxFd
Conns == 1..MaxConn

(***************************************************************************)
(* enum tcp_status.  A status word is a uint32_t; it is modelled as the    *)
(* set of its bit positions that are 1 (bit k has the value 2^k).          *)
(***************************************************************************)
Width == 32
BITS == 0..(Width - 1)
INITIALIZED    == {}      \* 0x0000
INIT_AS_SERVER == {0}     \* 0x0001
INIT_AS_CLIENT == {1}     \* 0x0002
OPEN_SOCKET    == {4}     \* 0x0010
OPEN_SERVER    == {5}     \* 0x0020
LISTENING      == {9}     \* 0x0200
CONNECTED      == {12}    \* 0x1000

BitOr(a, b)  == a \cup b
BitAnd(a, b) == a \cap b
BitNot(a)    == BITS \ a
Test(st, flag) == BitAnd(st, flag) # {}

(***************************************************************************)
(* Data.  Bytes travel as one-character strings; FIN marks the end of a    *)
(* stream (the peer closed), JUNK what an uninitialised buffer cell holds. *)
(***************************************************************************)
alnum == <<"A", "B", "C", "D">>
Bytes == {"A", "B"}
FIN == "FIN"
JUNK == "?"
BUFLEN == 5       \* char buf[5] of test_client.cc
SRVBUF == 1024    \* char buf[1024] of test_server.cc
DemoPort == 8081
Backlog == 50

Min(a, b) == IF a < b THEN a ELSE b
Take(s, k) == SubSeq(s, 1, k)
Drop(s, k) == SubSeq(s, k + 1, Len(s))
IsPrefix(s, t) == Len(s) <= Len(t) /\ s = SubSeq(t, 1, Len(s))
DataOf == UNION {[1..k -> Bytes] : k \in 1..MaxLen}

(***************************************************************************)
(* What reading an int32_t member that was never assigned (sockfd,         *)
(* serverfd: the constructor leaves both uninitialised) may yield: an      *)
(* invalid number, a standard stream, or the number of the first socket    *)
(* of the process.  The value is indeterminate: every read chooses anew.   *)
(***************************************************************************)
Garbage == {-1, 0, 3}

VARIABLES
  proc,   \* proc[p]: "run" | "exited" (exit(1) or killed by SIGPIPE)
  obj,    \* obj[p]: the instance of process p (members of tcp::connection)
  mpc,    \* mpc[p]: position inside a method that takes several steps
  last,   \* the last call that returned (or ended the process)
  ker,    \* the kernel: descriptor tables, connections, accept queue
  gh,     \* gh[p]: the descriptors the instance of p holds / has released
  hist,   \* per connection and receiving end: bytes written / bytes read
  pc,     \* pc[p]: position of the demonstration program of p
  dv      \* the demonstration programs' local variables

vars == <<proc, obj, mpc, last, ker, gh, hist, pc, dv>>

(***************************************************************************)
(* The kernel.                                                             *)
(***************************************************************************)
\* A descriptor: fl are its file status flags (fcntl F_GETFL), of which
\* F_SETFL changes all but the access mode.
FlagNames == {"O_RDWR", "O_APPEND", "O_NONBLOCK"}
O_NONBLOCK == {"O_NONBLOCK"}
AccessMode == {"O_RDWR"}
ClosedFd == [kind |-> "closed", bound |-> FALSE, lstn |-> FALSE, conn |-> 0,
             fl |-> {}, reuse |-> FALSE]
StdFd    == [ClosedFd EXCEPT !.kind = "std", !.fl = AccessMode]
NewSock  == [ClosedFd EXCEPT !.kind = "sock", !.fl = AccessMode]

\* A connection: for each end its state, the bytes on their way to it, the
\* bytes that have arrived for it, and whether the peer has answered it
\* with a reset (RST).
NoConn == [ends |-> [e \in Procs |-> "none"],
           wire |-> [e \in Procs |-> <<>>],
           rcv  |-> [e \in Procs |-> <<>>],
           rst  |-> [e \in Procs |-> FALSE]]

KInit == [fdt     |-> [p \in Procs |-> [fd \in FDs |->
                         IF fd <= 2 THEN StdFd ELSE ClosedFd]],
          conn    |-> [c \in Conns |-> NoConn],
          backlog |-> <<>>,
          nconn   |-> 0]

IsOpen(K, p, fd) == fd \in FDs /\ K.fdt[p][fd].kind # "closed"
IsSock(K, p, fd) == fd \in FDs /\ K.fdt[p][fd].kind = "sock"
ConnOf(K, p, fd) == IF IsSock(K, p, fd) THEN K.fdt[p][fd].conn ELSE 0

FreeFds(K, p) == {fd \in FDs : K.fdt[p][fd].kind = "closed"}
LowestFree(K, p) ==
  IF FreeFds(K, p) = {} THEN -1
  ELSE CHOOSE fd \in FreeFds(K, p) : \A g \in FreeFds(K, p) : fd <= g

\* The end e of connection c is closed: what it had received and what was
\* on its way to it is dropped, and the peer is sent a FIN; the peer is
\* sent a reset as well when e closes with data unread or still to come.
HasData(s) == \E i \in 1..Len(s) : s[i] # FIN
EndClosed(cn, e) ==
  [ends |-> [cn.ends EXCEPT ![e] = "closed"],
   wire |-> [cn.wire EXCEPT ![e] = <<>>,
                            ![Peer(e)] = IF cn.ends[Peer(e)] = "closed"
                                         THEN <<>> ELSE Append(@, FIN)],
   rcv  |-> [cn.rcv EXCEPT ![e] = <<>>],
   rst  |-> [cn.rst EXCEPT ![Peer(e)] =
               @ \/ HasData(cn.rcv[e]) \/ HasData(cn.wire[e])]]
\* The listener closes with the connection still in its accept queue.
EndRefused(cn, e) == [EndClosed(cn, e) EXCEPT !.rst[Peer(e)] = TRUE]

\* ::socket(AF_INET, SOCK_STREAM, 0)
KSocketFd(K, p) == LowestFree(K, p)
KSocket(K, p) ==
  IF LowestFree(K, p) = -1 THEN K
  ELSE [K EXCEPT !.fdt[p][LowestFree(K, p)] = NewSock]

\* ::close(fd)
KClose(K, p, fd) ==
  IF ~IsOpen(K, p, fd) THEN K
  ELSE LET e == K.fdt[p][fd]
           K1 == [K EXCEPT !.fdt[p][fd] = ClosedFd]
       IN IF e.conn # 0
            THEN [K1 EXCEPT !.conn[e.conn] = EndClosed(@, p)]
          ELSE IF e.lstn
            THEN [K1 EXCEPT
                    !.backlog = <<>>,
                    !.conn = [c \in Conns |->
                                IF \E i \in 1..Len(K.backlog) : K.backlog[i] = c
                                THEN EndRefused(K.conn[c], p) ELSE K.conn[c]]]
          ELSE K1

\* The process ends: the kernel closes every descriptor it holds.
RECURSIVE KCloseAll(_, _, _)
KCloseAll(K, p, fd) ==
  IF fd > MaxFd THEN K ELSE KCloseAll(KClose(K, p, fd), p, fd + 1)

\* setsockopt(fd, SOL_SOCKET, SO_REUSEADDR, &one, ..)
KSetReuse(K, p, fd) ==
  IF IsSock(K, p, fd) THEN [K EXCEPT !.fdt[p][fd].reuse = TRUE] ELSE K

\* fcntl(fd, F_GETFL, 0): the file status flags; -1 (every bit set) for a
\* bad descriptor.  An int of flags is the set of the flags that are set.
KGetFl(K, p, fd) ==
  IF ~IsOpen(K, p, fd) THEN FlagNames ELSE K.fdt[p][fd].fl

\* fcntl(fd, F_SETFL, flag)
KSetFl(K, p, fd, flag) ==
  IF ~IsOpen(K, p, fd) THEN K
  ELSE [K EXCEPT !.fdt[p][fd].fl = (@ \cap AccessMode) \cup (flag \ AccessMode)]
NonBlocking(K, p, fd) == IsOpen(K, p, fd) /\ "O_NONBLOCK" \in K.fdt[p][fd].fl

\* Some process listens on the port.
Listener(K) ==
  \E q \in Procs, fd \in FDs : K.fdt[q][fd].kind = "sock" /\ K.fdt[q][fd].lstn
PortTaken(K) ==
  \E q \in Procs, fd \in FDs : K.fdt[q][fd].kind = "sock" /\ K.fdt[q][fd].bound

\* ::bind(fd, addr, len); busy: a foreign process holds the port.
KBindOk(K, p, fd, busy) ==
  IsSock(K, p, fd) /\ ~K.fdt[p][fd].bound /\ K.fdt[p][fd].conn = 0
  /\ ~busy /\ ~PortTaken(K)
KBind(K, p, fd, busy) ==
  IF KBindOk(K, p, fd, busy) THEN [K EXCEPT !.fdt[p][fd].bound = TRUE] ELSE K

\* ::listen(fd, backlog)
KListenOk(K, p, fd) ==
  IsSock(K, p, fd) /\ K.fdt[p][fd].bound /\ K.fdt[p][fd].conn = 0
KListen(K, p, fd) ==
  IF KListenOk(K, p, fd) THEN [K EXCEPT !.fdt[p][fd].lstn = TRUE] ELSE K

\* ::connect(fd, addr, len): the handshake completes as soon as a listener
\* exists; the connection then waits in the listener's accept queue.
KConnectOk(K, p, fd) ==
  IsSock(K, p, fd) /\ K.fdt[p][fd].conn = 0 /\ ~K.fdt[p][fd].lstn
  /\ Listener(K) /\ Len(K.backlog) < Backlog
KConnect(K, p, fd) ==
  IF ~KConnectOk(K, p, fd) THEN K
  ELSE LET c == K.nconn + 1
       IN [K EXCEPT !.nconn = c,
                    !.fdt[p][fd].conn = c,
                    !.conn[c].ends = [e \in Procs |->
                                        IF e = p THEN "open" ELSE "queued"],
                    !.backlog = Append(@, c)]

\* ::accept(fd, addr, &len): blocks while the accept queue is empty.
KAcceptBlocks(K, p, fd) ==
  IsSock(K, p, fd) /\ K.fdt[p][fd].lstn /\ K.backlog = <<>>
     /\ ~NonBlocking(K, p, fd)
KAcceptFd(K, p, fd) ==
  IF IsSock(K, p, fd) /\ K.fdt[p][fd].lstn /\ K.backlog # <<>>
  THEN LowestFree(K, p) ELSE -1
KAccept(K, p, fd) ==
  IF KAcceptFd(K, p, fd) = -1 THEN K
  ELSE LET c == Head(K.backlog)
       IN [K EXCEPT !.backlog = Tail(@),
                    !.fdt[p][KAcceptFd(K, p, fd)] =
                         [NewSock EXCEPT !.conn = c],
                    !.conn[c].ends[p] = "open"]

\* ::read(fd, buf, n).  What has arrived for the end, up to n bytes and up
\* to the FIN; 0 at the FIN; blocks, or fails in non-blocking mode, when
\* nothing has arrived.  A standard stream is at end of file.
Arrived(K, p, fd) ==
  IF ConnOf(K, p, fd) = 0 THEN <<>> ELSE K.conn[ConnOf(K, p, fd)].rcv[p]
RECURSIVE DataLen(_)
DataLen(s) == IF s = <<>> \/ Head(s) = FIN THEN 0 ELSE 1 + DataLen(Tail(s))

KReadBlocks(K, p, fd) ==
  ConnOf(K, p, fd) # 0 /\ Arrived(K, p, fd) = <<>>
  /\ ~NonBlocking(K, p, fd)
KReadNum(K, p, fd, n) ==
  IF ~IsOpen(K, p, fd) THEN -1
  ELSE IF K.fdt[p][fd].kind = "std" THEN 0
  ELSE IF ConnOf(K, p, fd) = 0 THEN -1
  ELSE IF Arrived(K, p, fd) = <<>> THEN -1
  ELSE Min(n, DataLen(Arrived(K, p, fd)))
KReadData(K, p, fd, n) ==
  IF KReadNum(K, p, fd, n) <= 0 THEN <<>>
  ELSE Take(Arrived(K, p, fd), KReadNum(K, p, fd, n))
KRead(K, p, fd, n) ==
  IF KReadNum(K, p, fd, n) <= 0 THEN K
  ELSE [K EXCEPT !.conn[ConnOf(K, p, fd)].rcv[p] =
                     Drop(@, KReadNum(K, p, fd, n))]

\* ::write(fd, data, n), with the kernel accepting k of the n bytes
\* (1 <= k <= n).  On a socket that is not connected, or that has been
\* sent a reset, the write fails with EPIPE (and raises SIGPIPE) - once the
\* reset has arrived: until then the write is accepted.  Bytes written to
\* a peer that has closed are dropped and answered with a reset.
PeerClosed(K, p, fd) ==
  IF ConnOf(K, p, fd) = 0 THEN FALSE
  ELSE K.conn[ConnOf(K, p, fd)].ends[Peer(p)] = "closed"
KWriteDead(K, p, fd) ==
  IF ConnOf(K, p, fd) = 0 THEN IsSock(K, p, fd)
  ELSE K.conn[ConnOf(K, p, fd)].rst[p]
KWriteNum(K, p, fd, n, k, epipe) ==
  IF ~IsOpen(K, p, fd) THEN -1
  ELSE IF K.fdt[p][fd].kind = "std" THEN n
  ELSE IF ConnOf(K, p, fd) = 0 THEN -1
  ELSE IF KWriteDead(K, p, fd) /\ epipe THEN -1
  ELSE Min(k, n)
KWrite(K, p, fd, data, n, k, epipe) ==
  IF KWriteNum(K, p, fd, n, k, epipe) <= 0 \/ ~IsSock(K, p, fd) THEN K
  ELSE IF PeerClosed(K, p, fd)
    THEN [K EXCEPT !.conn[ConnOf(K, p, fd)].rst[p] = TRUE]
  ELSE [K EXCEPT !.conn[ConnOf(K, p, fd)].wire[Peer(p)] =
                     @ \o Take(data, Min(k, n))]


(***************************************************************************)
(* The world a method acts on: a method is a function from the world       *)
(* before the call (and the outcomes the kernel chooses) to the world      *)
(* after it, so that a method calling another is a composition.            *)
(***************************************************************************)
World == [proc |-> proc, obj |-> obj, ker |-> ker, gh |-> gh, hist |-> hist,
          last |-> [last EXCEPT !.bad = {}]]
In(p, g) == [World EXCEPT !.obj[p].sockfd = g[1], !.obj[p].serverfd = g[2]]
Becomes(W) ==
  /\ proc' = W.proc /\ obj' = W.obj /\ last' = W.last
  /\ ker' = W.ker /\ gh' = W.gh /\ hist' = W.hist

\* The members of an instance.  sset / vset: sockfd / serverfd has been
\* assigned; until then the member is indeterminate and what is stored
\* here for it means nothing.
NoObj == [life |-> "none", sockfd |-> -1, serverfd |-> -1, sset |-> FALSE,
          vset |-> FALSE, port |-> 0, ipaddr |-> "", status |-> INITIALIZED]

\* The world as the next step of p finds it, the members of the instance
\* that were never assigned reading as g[1] (sockfd) and g[2] (serverfd);
\* and the world it leaves, those members being indeterminate again.
IndetS(p) ==
  (IF obj[p].sset THEN {obj[p].sockfd} ELSE Garbage) \X {obj[p].serverfd}
IndetV(p) ==
  {obj[p].sockfd} \X (IF obj[p].vset THEN {obj[p].serverfd} ELSE Garbage)
Indet(p) ==
  (IF obj[p].sset THEN {obj[p].sockfd} ELSE Garbage)
    \X (IF obj[p].vset THEN {obj[p].serverfd} ELSE Garbage)
Forget(W, p) ==
  [W EXCEPT !.obj[p].sockfd = IF W.obj[p].sset THEN @ ELSE -1,
            !.obj[p].serverfd = IF W.obj[p].vset THEN @ ELSE -1]
NoLast == [p |-> "none", op |-> "none", ret |-> 0, kcalls |-> 0,
           estab |-> FALSE, bad |-> {}]
NoGh == [estab |-> FALSE, held |-> {}, released |-> {}, made |-> 0]
NoHist == [sent |-> <<>>, got |-> <<>>]
\* nodata: nothing had arrived when partial_read made its read.
Idle == [at |-> "none", n |-> 0, num |-> 0, kcalls |-> 0, nodata |-> FALSE]
Pos(a) == [Idle EXCEPT !.at = a]

\* The call op of p returns ret, having made kc ::read/::write kernel
\* calls.  est: a connection was established on the instance when the call
\* was made.  bad: the ::close calls of this call that went wrong.
Ret(W, p, op, ret, kc, est) ==
  [W EXCEPT !.last = [p |-> p, op |-> op, ret |-> ret, kcalls |-> kc,
                      estab |-> est, bad |-> W.last.bad]]

\* exit(1), or the default action of SIGPIPE: the process ends at once, no
\* destructor runs, the kernel closes its descriptors.
Exit(W, p) ==
  [W EXCEPT !.proc[p] = "exited", !.ker = KCloseAll(@, p, 0)]

\* The instance of p passes fd to ::close.  fd is a descriptor the
\* instance holds, or one it has already released ("dbl"), or one it never
\* acquired ("wild").
SysClose(W, p, fd) ==
  LET g == W.gh[p]
  IN [W EXCEPT
        !.ker = KClose(@, p, fd),
        !.gh[p] = IF fd \in g.held
                    THEN [g EXCEPT !.held = @ \ {fd},
                                   !.released = @ \cup {fd}]
                  ELSE g,
        !.last.bad = IF fd \in g.held THEN @
                     ELSE IF fd \in g.released THEN @ \cup {"dbl"}
                     ELSE @ \cup {"wild"}]

\* The instance of p acquired fd (by socket() or accept()).
Acquire(W, p, fd) ==
  [W EXCEPT !.gh[p].held = @ \cup {fd}, !.gh[p].released = @ \ {fd}]

(***************************************************************************)
(* class connection                                                        *)
(***************************************************************************)
\* connection::connection: sockfd and serverfd are left uninitialised.
connection(W, p, _port, _ipaddr) ==
  [W EXCEPT !.obj[p] = [NoObj EXCEPT !.life = "ctor", !.port = _port,
                                     !.ipaddr = _ipaddr,
                                     !.status = INITIALIZED],
            !.gh[p] = [NoGh EXCEPT !.made = W.gh[p].made + 1]]

\* close_sockfd / close_serverfd: the status word after the call.
close_sockfd_status(status)   == BitOr(status, BitNot(OPEN_SOCKET))
close_serverfd_status(status) == BitOr(status, BitNot(OPEN_SERVER))

\* close_sockfd with the ::close left out.
close_sockfd_flag_only(W, p) ==
  [W EXCEPT !.obj[p].status = close_sockfd_status(@)]
close_sockfd(W, p) ==
  LET o == W.obj[p]
      W1 == IF Test(o.status, OPEN_SOCKET) THEN SysClose(W, p, o.sockfd)
            ELSE W
  IN [W1 EXCEPT !.obj[p].status = close_sockfd_status(@)]

close_serverfd(W, p) ==
  LET o == W.obj[p]
      W1 == IF Test(o.status, OPEN_SERVER) THEN SysClose(W, p, o.serverfd)
            ELSE W
  IN [W1 EXCEPT !.obj[p].status = close_serverfd_status(@)]

\* connection::~connection
destroy(W, p) ==
  Ret([close_serverfd(close_sockfd(W, p), p) EXCEPT
         !.obj[p].life = "dead", !.gh[p].estab = FALSE],
      p, "destroy", 0, 0, W.gh[p].estab)

get_port(o) == o.port
get_socket(o) == IF Test(o.status, OPEN_SOCKET) THEN o.sockfd ELSE -1
get_server_socket(o) ==
  IF Test(o.status, OPEN_SOCKET) THEN o.serverfd ELSE -1

\* What the caller finds in buf[0..ret) after ::read stored data in buf.
Observed(data, ret) ==
  IF ret <= 0 THEN <<>>
  ELSE [i \in 1..ret |-> IF i <= Len(data) THEN data[i] ELSE JUNK]

\* connection::read(buf, n)
readBlocks(W, p) ==
  Test(W.obj[p].status, CONNECTED) /\ KReadBlocks(W.ker, p, W.obj[p].sockfd)
\* read with "return n" for "return num": the caller takes all of buf[0..n)
\* for received bytes.
read_returning_n(W, p, n) ==
  LET o == W.obj[p]
      est == W.gh[p].estab
      num == KReadNum(W.ker, p, o.sockfd, n)
      buf == Observed(KReadData(W.ker, p, o.sockfd, n), IF num > 0 THEN n ELSE num)
      c == ConnOf(W.ker, p, o.sockfd)
      W1 == [W EXCEPT !.ker = KRead(@, p, o.sockfd, n),
                      !.hist = IF c = 0 THEN @
                               ELSE [@ EXCEPT ![c][p].got = @ \o buf]]
  IN IF ~Test(o.status, CONNECTED) THEN Ret(W, p, "read", -1, 0, est)
     ELSE Ret(W1, p, "read", IF num > 0 THEN n ELSE num, 1, est)
\* read that takes the end of the stream (num = 0) for the end of the
\* connection and turns CONNECTED off.
read_ending_connection(W, p, n) ==
  LET o == W.obj[p]
      est == W.gh[p].estab
      num == KReadNum(W.ker, p, o.sockfd, n)
      buf == Observed(KReadData(W.ker, p, o.sockfd, n), num)
      c == ConnOf(W.ker, p, o.sockfd)
      W1 == [W EXCEPT !.ker = KRead(@, p, o.sockfd, n),
                      !.hist = IF c = 0 THEN @
                               ELSE [@ EXCEPT ![c][p].got = @ \o buf],
                      !.obj[p].status = IF num = 0 THEN @ \ CONNECTED ELSE @]
  IN IF ~Test(o.status, CONNECTED) THEN Ret(W, p, "read", -1, 0, est)
     ELSE Ret(W1, p, "read", num, 1, est)
read(W, p, n) ==
  LET o == W.obj[p]
      est == W.gh[p].estab
      num == KReadNum(W.ker, p, o.sockfd, n)
      buf == Observed(KReadData(W.ker, p, o.sockfd, n), num)
      c == ConnOf(W.ker, p, o.sockfd)
      W1 == [W EXCEPT !.ker = KRead(@, p, o.sockfd, n),
                      !.hist = IF c = 0 THEN @
                               ELSE [@ EXCEPT ![c][p].got = @ \o buf]]
  IN IF ~Test(o.status, CONNECTED) THEN Ret(W, p, "read", -1, 0, est)
     ELSE Ret(W1, p, "read", num, 1, est)

\* connection::write(data, n); k and epipe are the kernel's choices, sig
\* whether SIGPIPE has its default action.
write(W, p, data, n, k, epipe, sig) ==
  LET o == W.obj[p]
      est == W.gh[p].estab
      num == KWriteNum(W.ker, p, o.sockfd, n, k, epipe)
      c == ConnOf(W.ker, p, o.sockfd)
      W1 == [W EXCEPT !.ker = KWrite(@, p, o.sockfd, data, n, k, epipe),
                      !.hist = IF c = 0 \/ num <= 0 THEN @
                               ELSE [@ EXCEPT ![c][Peer(p)].sent =
                                                 @ \o Take(data, num)]]
  IN IF ~Test(o.status, CONNECTED) THEN Ret(W, p, "write", -1, 0, est)
     ELSE IF num = -1 /\ KWriteDead(W.ker, p, o.sockfd) /\ sig
       THEN Exit(Ret(W, p, "write", -1, 1, est), p)
     ELSE Ret(W1, p, "write", num, 1, est)

\* connection::close
close(W, p) ==
  LET est == W.gh[p].estab
      W0 == [W EXCEPT !.gh[p].estab = FALSE]
  IN IF Test(W.obj[p].status, CONNECTED)
       THEN Ret(close_sockfd(W0, p), p, "close", 0, 0, est)
     ELSE Ret(W0, p, "close", -1, 0, est)

\* connection::set_nonblock / unset_nonblock: the flag word handed to
\* fcntl(sockfd, F_SETFL, ..).
\* The same with the update of flag left out, and with "flag |= ~O_NONBLOCK"
\* for "flag &= ~O_NONBLOCK".
set_nonblock_forgotten(flag) == flag
\* The same with "flag ^= O_NONBLOCK".
set_nonblock_xor(flag) == (flag \ O_NONBLOCK) \cup (O_NONBLOCK \ flag)
unset_nonblock_or(flag)      == flag \cup (FlagNames \ O_NONBLOCK)
set_nonblock_flag(flag)   == flag \cup O_NONBLOCK
unset_nonblock_flag(flag) == flag \cap (FlagNames \ O_NONBLOCK)

set_nonblock(W, p) ==
  LET fd == W.obj[p].sockfd
      flag == KGetFl(W.ker, p, fd)
  IN Ret([W EXCEPT !.ker = KSetFl(@, p, fd, set_nonblock_flag(flag))],
         p, "set_nonblock", 0, 0, W.gh[p].estab)

unset_nonblock(W, p) ==
  LET fd == W.obj[p].sockfd
      flag == KGetFl(W.ker, p, fd)
  IN Ret([W EXCEPT !.ker = KSetFl(@, p, fd, unset_nonblock_flag(flag))],
         p, "unset_nonblock", 0, 0, W.gh[p].estab)


\* connection::partial_read(buf, n), statement by statement; num is the
\* result of its read and kc the kernel reads it made.
partial_read_set(W, p)     == set_nonblock(W, p)
partial_read_read(W, p, n) == read(W, p, n)
partial_read_unset(W, p, num, kc) ==
  Ret(unset_nonblock(W, p), p, "partial_read", num, kc, W.gh[p].estab)

(***************************************************************************)
(* class server                                                            *)
(***************************************************************************)
\* server::server runs connection::connection, then init_server.
init_server_close(W, p) == close_serverfd(W, p)

init_server_socket(W, p) ==
  LET fd == KSocketFd(W.ker, p)
      W0 == [W EXCEPT !.obj[p].serverfd = fd, !.obj[p].vset = TRUE]
      W1 == [W0 EXCEPT !.ker = KSocket(@, p)]
  IN IF fd < 0 THEN Exit(W0, p) ELSE Acquire(W1, p, fd)

init_server_setsockopt(W, p) ==
  [W EXCEPT !.ker = KSetReuse(@, p, W.obj[p].serverfd)]

init_server_bind(W, p, busy) ==
  LET fd == W.obj[p].serverfd
  IN IF ~KBindOk(W.ker, p, fd, busy) THEN Exit(W, p)
     ELSE [W EXCEPT !.ker = KBind(@, p, fd, busy)]

init_server_flags(W, p) ==
  [W EXCEPT !.obj[p].status = BitOr(BitOr(@, INIT_AS_SERVER), OPEN_SERVER),
            !.obj[p].life = "live"]

\* server::listen
listen(W, p) ==
  LET fd == W.obj[p].serverfd
      est == W.gh[p].estab
  IN IF ~KListenOk(W.ker, p, fd)
       THEN Exit(Ret(W, p, "listen", -1, 0, est), p)
     ELSE Ret([W EXCEPT !.ker = KListen(@, p, fd),
                        !.obj[p].status = BitOr(@, LISTENING)],
              p, "listen", 0, 0, est)

\* server::accept
acceptBlocks(W, p) == KAcceptBlocks(W.ker, p, W.obj[p].serverfd)
accept(W, p) ==
  LET sfd == W.obj[p].serverfd
      est == W.gh[p].estab
      fd == KAcceptFd(W.ker, p, sfd)
      W0 == [W EXCEPT !.obj[p].sockfd = fd, !.obj[p].sset = TRUE]
      W1 == [W0 EXCEPT !.ker = KAccept(@, p, sfd),
                       !.obj[p].status = BitOr(BitOr(@, OPEN_SOCKET), CONNECTED),
                       !.gh[p].estab = TRUE]
  IN IF fd < 0 THEN Exit(Ret(W0, p, "accept", -1, 0, est), p)
     ELSE Ret(Acquire(W1, p, fd), p, "accept", 0, 0, est)

(***************************************************************************)
(* class client                                                            *)
(***************************************************************************)
\* client::client runs connection::connection, then init_connection.
init_connection_close(W, p) == close_sockfd(W, p)

init_connection_setsockopt(W, p) ==
  [W EXCEPT !.ker = KSetReuse(@, p, W.obj[p].sockfd)]

init_connection_socket(W, p) ==
  LET fd == KSocketFd(W.ker, p)
      W0 == [W EXCEPT !.obj[p].sockfd = fd, !.obj[p].sset = TRUE]
      W1 == [W0 EXCEPT !.ker = KSocket(@, p)]
  IN IF fd < 0 THEN Exit(W0, p) ELSE Acquire(W1, p, fd)

init_connection_flags(W, p) ==
  [W EXCEPT !.obj[p].status = BitOr(BitOr(@, INIT_AS_CLIENT), OPEN_SOCKET),
            !.obj[p].life = "live"]

\* client::connect
connect(W, p) ==
  LET fd == W.obj[p].sockfd
      est == W.gh[p].estab
  IN IF ~KConnectOk(W.ker, p, fd)
       THEN Exit(Ret(W, p, "connect", -1, 0, est), p)
     ELSE Ret([W EXCEPT !.ker = KConnect(@, p, fd),
                        !.obj[p].status = BitOr(@, CONNECTED),
                        !.gh[p].estab = TRUE],
              p, "connect", 0, 0, est)

(***************************************************************************)
(* The network delivers the next byte (or the FIN) on its way to end e of  *)
(* connection c.                                                           *)
(***************************************************************************)
KDeliver(K, c, e) ==
  [K EXCEPT !.conn[c].wire[e] = Tail(@),
            !.conn[c].rcv[e] = Append(@, Head(K.conn[c].wire[e]))]

\* The locals of test_client.cc (i, n, wsum, rsum) and of test_server.cc
\* (sn: its n, sum, buf); sread and echoed total what the server read and
\* what its writes returned on the connection it serves.
NoDv == [N |-> Min(DemoN, Len(alnum)), i |-> 1, n |-> 0, wsum |-> 0,
         rsum |-> 0,
         sn |-> 0, sum |-> 0, buf |-> <<>>, sread |-> 0, echoed |-> 0]

(***************************************************************************)
(* The initial state: two processes, no instance yet.                      *)
(***************************************************************************)
Init ==
  /\ proc = [p \in Procs |-> "run"]
  /\ obj = [p \in Procs |-> NoObj]
  /\ mpc = [p \in Procs |-> Idle]
  /\ last = NoLast
  /\ ker = KInit
  /\ gh = [p \in Procs |-> NoGh]
  /\ hist = [c \in Conns |-> [e \in Procs |-> NoHist]]
  /\ pc = [p \in Procs |-> "start"]
  /\ dv = NoDv

\* The step of p in a method leads to world W and position at.
Move(p, W, at) ==
  /\ Becomes(Forget(W, p))
  /\ mpc' = [mpc EXCEPT ![p] = IF W.proc[p] = "exited" THEN Idle ELSE at]
Step(p, W, at) == Move(p, W, at) /\ UNCHANGED <<pc, dv>>

Running(p) == proc[p] = "run"
At(p, a) == Running(p) /\ mpc[p].at = a
Callable(p) == Running(p) /\ obj[p].life = "live" /\ mpc[p].at = "none"
CanConstruct(p) ==
  Running(p) /\ obj[p].life \in {"none", "dead"} /\ mpc[p].at = "none"
  /\ gh[p].made < (IF p = "srv" THEN MaxServers ELSE MaxClients)

\* The bound on the bytes written per connection and direction.
WriteInBound(W, p, n) ==
  LET c == ConnOf(W.ker, p, W.obj[p].sockfd)
  IN IF c = 0 THEN TRUE
     ELSE Len(W.hist[c][Peer(p)].sent) + n
            <= (IF p = "srv" THEN MaxReply ELSE MaxBytes)

(***************************************************************************)
(* The calls, as a caller may issue them in any order.  In Spec the server *)
(* instance is called freely, while clients come, connect and go.          *)
(***************************************************************************)
ServerCtor ==
  /\ CanConstruct("srv")
  /\ Step("srv", connection(World, "srv", DemoPort, "127.0.0.1"),
          Pos("is_close"))
InitServerClose ==
  /\ At("srv", "is_close")
  /\ \E g \in IndetV("srv") :
       Step("srv", init_server_close(In("srv", g), "srv"), Pos("is_socket"))
InitServerSocket ==
  /\ At("srv", "is_socket")
  /\ \E g \in IndetV("srv") :
       Step("srv", init_server_socket(In("srv", g), "srv"), Pos("is_sockopt"))
InitServerSetsockopt ==
  /\ At("srv", "is_sockopt")
  /\ \E g \in IndetV("srv") :
       Step("srv", init_server_setsockopt(In("srv", g), "srv"),
            Pos("is_bind"))
InitServerBind ==
  /\ At("srv", "is_bind")
  /\ \E g \in IndetV("srv"), busy \in BOOLEAN :
       Step("srv", init_server_bind(In("srv", g), "srv", busy),
            Pos("is_flags"))
InitServerFlags ==
  /\ At("srv", "is_flags")
  /\ \E g \in IndetV("srv") :
       Step("srv", init_server_flags(In("srv", g), "srv"), Idle)

ClientCtor ==
  /\ CanConstruct("cli")
  /\ Step("cli", connection(World, "cli", DemoPort, "127.0.0.1"),
          Pos("ic_close"))
InitConnectionClose ==
  /\ At("cli", "ic_close")
  /\ \E g \in IndetS("cli") :
       Step("cli", init_connection_close(In("cli", g), "cli"),
            Pos("ic_sockopt"))
InitConnectionSetsockopt ==
  /\ At("cli", "ic_sockopt")
  /\ \E g \in IndetS("cli") :
       Step("cli", init_connection_setsockopt(In("cli", g), "cli"),
            Pos("ic_socket"))
InitConnectionSocket ==
  /\ At("cli", "ic_socket")
  /\ \E g \in IndetS("cli") :
       Step("cli", init_connection_socket(In("cli", g), "cli"),
            Pos("ic_flags"))
InitConnectionFlags ==
  /\ At("cli", "ic_flags")
  /\ \E g \in IndetS("cli") :
       Step("cli", init_connection_flags(In("cli", g), "cli"), Idle)

Listen ==
  /\ Callable("srv")
  /\ \E g \in IndetV("srv") : Step("srv", listen(In("srv", g), "srv"), Idle)
Accept ==
  /\ Callable("srv")
  /\ \E g \in IndetV("srv") :
       /\ ~acceptBlocks(In("srv", g), "srv")
       /\ Step("srv", accept(In("srv", g), "srv"), Idle)
Connect ==
  /\ Callable("cli")
  /\ ker.nconn < MaxConn
  /\ \E g \in IndetS("cli") : Step("cli", connect(In("cli", g), "cli"), Idle)

\* read(buf, n) with n from N; write(data, n) with data from D, n its length.
ReadOf(p, N) ==
  /\ Callable(p)
  /\ \E g \in IndetS(p), n \in N :
       /\ ~readBlocks(In(p, g), p)
       /\ Step(p, read(In(p, g), p, n), Idle)
WriteOf(p, D) ==
  /\ Callable(p)
  /\ \E g \in IndetS(p), data \in D, k \in 1..MaxLen,
        epipe \in BOOLEAN, sig \in BOOLEAN :
       /\ k <= Len(data)
       /\ IF epipe THEN KWriteDead(ker, p, g[1]) ELSE ~sig
       /\ WriteInBound(In(p, g), p, Len(data))
       /\ Step(p, write(In(p, g), p, data, Len(data), k, epipe, sig), Idle)
Read(p) == ReadOf(p, {1})
Write(p) == WriteOf(p, {<<"A">>})
Close(p) ==
  /\ Callable(p)
  /\ \E g \in IndetS(p) : Step(p, close(In(p, g), p), Idle)
SetNonblock(p) ==
  /\ Callable(p)
  /\ \E g \in IndetS(p) : Step(p, set_nonblock(In(p, g), p), Idle)
UnsetNonblock(p) ==
  /\ Callable(p)
  /\ \E g \in IndetS(p) : Step(p, unset_nonblock(In(p, g), p), Idle)
PartialReadSet(p) ==
  /\ Callable(p)
  /\ \E g \in IndetS(p), n \in 1..MaxLen :
       Step(p, partial_read_set(In(p, g), p),
            [Pos("pr_read") EXCEPT !.n = n])
PartialReadRead(p) ==
  /\ At(p, "pr_read")
  /\ \E g \in IndetS(p) :
       /\ ~readBlocks(In(p, g), p)
       /\ LET W == partial_read_read(In(p, g), p, mpc[p].n)
          IN Step(p, W, [at |-> "pr_unset", n |-> mpc[p].n,
                         num |-> W.last.ret, kcalls |-> W.last.kcalls,
                         nodata |-> Arrived(ker, p, g[1]) = <<>>])
PartialReadUnset(p) ==
  /\ At(p, "pr_unset")
  /\ \E g \in IndetS(p) :
       Step(p, partial_read_unset(In(p, g), p, mpc[p].num, mpc[p].kcalls),
            Idle)
Destroy(p) ==
  /\ Callable(p)
  /\ \E g \in Indet(p) : Step(p, destroy(In(p, g), p), Idle)

Deliver ==
  \E c \in Conns, e \in Procs :
    /\ ker.conn[c].wire[e] # <<>>
    /\ ker' = KDeliver(ker, c, e)
    /\ UNCHANGED <<proc, obj, mpc, last, gh, hist, pc, dv>>

Next ==
  \/ ServerCtor \/ InitServerClose \/ InitServerSocket
  \/ InitServerSetsockopt \/ InitServerBind \/ InitServerFlags
  \/ ClientCtor \/ InitConnectionClose \/ InitConnectionSetsockopt
  \/ InitConnectionSocket \/ InitConnectionFlags
  \/ Listen \/ Accept \/ Connect
  \/ Read("srv") \/ Close("srv")
  \/ SetNonblock("srv") \/ UnsetNonblock("srv")
  \/ PartialReadSet("srv") \/ PartialReadRead("srv")
  \/ PartialReadUnset("srv")
  \/ Write("srv")
  \/ \E p \in Procs : Destroy(p)
  \/ Deliver

Spec == Init /\ [][Next]_vars


(***************************************************************************)
(* A connected pair, the client sending data to the server.  StreamInit   *)
(* is the state in which a server and a client have been constructed, the  *)
(* server listens, the client has connected and the server has accepted:   *)
(* the composition of those calls from Init.                               *)
(***************************************************************************)
W0 == [proc |-> [p \in Procs |-> "run"], obj |-> [p \in Procs |-> NoObj],
       ker |-> KInit, gh |-> [p \in Procs |-> NoGh],
       hist |-> [c \in Conns |-> [e \in Procs |-> NoHist]], last |-> NoLast]
ServerBuilt(W) ==
  init_server_flags(init_server_bind(init_server_setsockopt(
    init_server_socket(init_server_close(
      connection(W, "srv", DemoPort, "127.0.0.1"), "srv"), "srv"), "srv"),
    "srv", FALSE), "srv")
ClientBuilt(W) ==
  init_connection_flags(init_connection_socket(init_connection_setsockopt(
    init_connection_close(
      connection(W, "cli", DemoPort, "127.0.0.1"), "cli"), "cli"), "cli"),
    "cli")
Connected ==
  Forget(accept(connect(listen(ClientBuilt(ServerBuilt(W0)), "srv"), "cli"),
                "srv"), "cli")

StreamInit ==
  /\ proc = Connected.proc /\ obj = Connected.obj /\ last = Connected.last
  /\ ker = Connected.ker /\ gh = Connected.gh /\ hist = Connected.hist
  /\ mpc = [p \in Procs |-> Idle]
  /\ pc = [p \in Procs |-> "start"]
  /\ dv = NoDv

StreamRead(p)  == ReadOf(p, 1..MaxLen)
StreamWrite(p) == WriteOf(p, DataOf)

\* The client is the side that writes, both sides read.
StreamNext ==
  \/ \E p \in Procs : StreamRead(p)
  \/ StreamWrite("cli")
  \/ \E p \in Procs : PartialReadSet(p)
  \/ \E p \in Procs : PartialReadRead(p)
  \/ \E p \in Procs : PartialReadUnset(p)
  \/ SetNonblock("srv")
  \/ UnsetNonblock("srv")
  \/ \E p \in Procs : Close(p)
  \/ Deliver

StreamSpec == StreamInit /\ [][StreamNext]_vars

\* The steps PartialReadRead(p) and PartialReadUnset(p) as they show in mpc:
\* p goes on from the read of partial_read once that read does not wait,
\* and from its unset_nonblock.
PartialReadGoesOn(p) ==
  \/ /\ At(p, "pr_read")
     /\ \E g \in IndetS(p) : ~readBlocks(In(p, g), p)
     /\ \E num \in -1..(MaxLen + 1), kc \in 0..1, nd \in BOOLEAN :
          mpc' = [mpc EXCEPT ![p] = [at |-> "pr_unset", n |-> mpc[p].n,
                                     num |-> num, kcalls |-> kc,
                                     nodata |-> nd]]
  \/ /\ At(p, "pr_unset")
     /\ mpc' = [mpc EXCEPT ![p] = Idle]

\* A thread inside partial_read runs on: its statements are not delayed for
\* ever.  Nothing is assumed of the network or of the peer.
StreamFair ==
  /\ StreamSpec
  /\ \A p \in Procs : WF_mpc(PartialReadGoesOn(p))


(***************************************************************************)
(* The demonstration programs: main of test_client.cc in process "cli",    *)
(* main of test_server.cc in process "srv".  Neither ignores SIGPIPE, so   *)
(* a write that fails with EPIPE ends the process.                         *)
(***************************************************************************)
N == Min(DemoN, Len(alnum))
Goto(p, W, next) ==
  pc' = [pc EXCEPT ![p] = IF W.proc[p] = "exited" THEN "killed" ELSE next]
AtLine(p, l) == Running(p) /\ pc[p] = l

\* test_client is run once more, a new process, after the run before it
\* has ended; the first run is "test_client DemoN", the later ones are
\* "test_client", which makes N the default.
DefaultN == 1
C_Main ==
  /\ proc["cli"] = "exited" /\ pc["cli"] \in {"done", "killed"}
  /\ gh["cli"].made < MaxClients
  /\ proc' = [proc EXCEPT !["cli"] = "run"]
  /\ obj' = [obj EXCEPT !["cli"] = NoObj]
  /\ mpc' = [mpc EXCEPT !["cli"] = Idle]
  /\ gh' = [gh EXCEPT !["cli"] = [NoGh EXCEPT !.made = gh["cli"].made]]
  /\ pc' = [pc EXCEPT !["cli"] = "start"]
  /\ dv' = [dv EXCEPT !.N = DefaultN, !.i = 1, !.n = 0, !.wsum = 0,
                      !.rsum = 0]
  /\ UNCHANGED <<last, ker, hist>>

\* tcp::client cli(8081, "127.0.0.1");
C_Begin ==
  /\ AtLine("cli", "start") /\ CanConstruct("cli")
  /\ LET W == connection(World, "cli", DemoPort, "127.0.0.1")
     IN Move("cli", W, Pos("ic_close")) /\ Goto("cli", W, "connect")
  /\ UNCHANGED dv
\* cli.connect();
C_Connect ==
  /\ AtLine("cli", "connect") /\ Callable("cli")
  /\ \E g \in IndetS("cli") :
       LET W == connect(In("cli", g), "cli")
       IN Move("cli", W, Idle) /\ Goto("cli", W, "write")
  /\ UNCHANGED dv
\* n = cli.write(alnum, i); wsum += n;
C_Write ==
  /\ AtLine("cli", "write") /\ Callable("cli") /\ dv.i <= dv.N
  /\ \E g \in IndetS("cli"), k \in 1..N, epipe \in BOOLEAN :
       /\ k <= dv.i
       /\ IF epipe THEN KWriteDead(ker, "cli", g[1]) ELSE TRUE
       /\ LET W == write(In("cli", g), "cli", Take(alnum, dv.i), dv.i, k,
                         epipe, epipe)
          IN /\ Move("cli", W, Idle) /\ Goto("cli", W, "read")
             /\ dv' = [dv EXCEPT !.n = W.last.ret,
                                 !.wsum = @ + W.last.ret]
\* n = cli.read(buf, sizeof(buf)); rsum += n;
C_Read ==
  /\ AtLine("cli", "read") /\ Callable("cli")
  /\ \E g \in IndetS("cli") :
       /\ ~readBlocks(In("cli", g), "cli")
       /\ LET W == read(In("cli", g), "cli", BUFLEN)
          IN /\ Move("cli", W, Idle) /\ Goto("cli", W, "drain")
             /\ dv' = [dv EXCEPT !.n = W.last.ret,
                                 !.rsum = @ + W.last.ret]
\* while ((n = cli.partial_read(buf, sizeof(buf))) > 0) rsum += n;
C_Drain ==
  /\ AtLine("cli", "drain") /\ Callable("cli")
  /\ \E g \in IndetS("cli") :
       LET W == partial_read_set(In("cli", g), "cli")
       IN /\ Move("cli", W, [Pos("pr_read") EXCEPT !.n = BUFLEN])
          /\ Goto("cli", W, "draining")
  /\ UNCHANGED dv
C_Drained ==
  /\ AtLine("cli", "draining") /\ At("cli", "pr_unset")
  /\ \E g \in IndetS("cli") :
       LET W == partial_read_unset(In("cli", g), "cli", mpc["cli"].num,
                                   mpc["cli"].kcalls)
           n == W.last.ret
       IN /\ Move("cli", W, Idle)
          /\ Goto("cli", W, IF n > 0 THEN "drain" ELSE "write")
          /\ dv' = [dv EXCEPT !.n = n,
                              !.rsum = IF n > 0 THEN @ + n ELSE @,
                              !.i = IF n > 0 THEN @ ELSE @ + 1]
\* cli.close();
C_Close ==
  /\ AtLine("cli", "write") /\ Callable("cli") /\ dv.i > dv.N
  /\ \E g \in IndetS("cli") :
       LET W == close(In("cli", g), "cli")
       IN Move("cli", W, Idle) /\ Goto("cli", W, "return")
  /\ UNCHANGED dv
\* return 0;  cli is destroyed and the process ends.
C_Return ==
  /\ AtLine("cli", "return") /\ Callable("cli")
  /\ \E g \in Indet("cli") :
       Move("cli", Exit(destroy(In("cli", g), "cli"), "cli"), Idle)
  /\ pc' = [pc EXCEPT !["cli"] = "done"]
  /\ UNCHANGED dv

\* tcp::server obj(8081, "127.0.0.1");
S_Begin ==
  /\ AtLine("srv", "start") /\ CanConstruct("srv")
  /\ LET W == connection(World, "srv", DemoPort, "127.0.0.1")
     IN Move("srv", W, Pos("is_close")) /\ Goto("srv", W, "listen")
  /\ UNCHANGED dv
\* obj.listen();
S_Listen ==
  /\ AtLine("srv", "listen") /\ Callable("srv")
  /\ \E g \in IndetV("srv") :
       LET W == listen(In("srv", g), "srv")
       IN Move("srv", W, Idle) /\ Goto("srv", W, "accept")
  /\ UNCHANGED dv
\* int64_t sum(0); obj.accept();
S_Accept ==
  /\ AtLine("srv", "accept") /\ Callable("srv")
  /\ \E g \in IndetV("srv") :
       /\ ~acceptBlocks(In("srv", g), "srv")
       /\ LET W == accept(In("srv", g), "srv")
          IN Move("srv", W, Idle) /\ Goto("srv", W, "read")
  /\ dv' = [dv EXCEPT !.sum = 0, !.sread = 0, !.echoed = 0]
\* while ((n = obj.read(buf, sizeof(buf))) > 0) { sum += n; ..
S_Read ==
  /\ AtLine("srv", "read") /\ Callable("srv")
  /\ \E g \in IndetS("srv") :
       /\ ~readBlocks(In("srv", g), "srv")
       /\ LET W == read(In("srv", g), "srv", SRVBUF)
              n == W.last.ret
          IN /\ Move("srv", W, Idle)
             /\ Goto("srv", W, IF n > 0 THEN "write" ELSE "close")
             /\ dv' = [dv EXCEPT
                         !.sn = n,
                         !.buf = Observed(KReadData(ker, "srv", g[1], SRVBUF), n),
                         !.sum = IF n > 0 THEN @ + n ELSE @,
                         !.sread = IF n > 0 THEN @ + n ELSE @]
\* n = obj.write(buf, n); }
S_Write ==
  /\ AtLine("srv", "write") /\ Callable("srv")
  /\ \E g \in IndetS("srv"), k \in 1..N, epipe \in BOOLEAN :
       /\ k <= dv.sn
       /\ IF epipe THEN KWriteDead(ker, "srv", g[1]) ELSE TRUE
       /\ LET W == write(In("srv", g), "srv", dv.buf, dv.sn, k, epipe, epipe)
              n == W.last.ret
          IN /\ Move("srv", W, Idle) /\ Goto("srv", W, "read")
             /\ dv' = [dv EXCEPT !.sn = n,
                                 !.echoed = IF n > 0 THEN @ + n ELSE @]
\* obj.close();  and round the loop
S_Close ==
  /\ AtLine("srv", "close") /\ Callable("srv")
  /\ \E g \in IndetS("srv") :
       LET W == close(In("srv", g), "srv")
       IN Move("srv", W, Idle) /\ Goto("srv", W, "accept")
  /\ UNCHANGED dv

DemoNext ==
  \/ C_Main \/ C_Begin \/ InitConnectionClose \/ InitConnectionSetsockopt
  \/ InitConnectionSocket \/ InitConnectionFlags
  \/ C_Connect \/ C_Write \/ C_Read \/ C_Drain \/ PartialReadRead("cli")
  \/ C_Drained \/ C_Close \/ C_Return
  \/ S_Begin \/ InitServerClose \/ InitServerSocket \/ InitServerSetsockopt
  \/ InitServerBind \/ InitServerFlags
  \/ S_Listen \/ S_Accept \/ S_Read \/ S_Write \/ S_Close
  \/ Deliver

DemoSpec == Init /\ [][DemoNext]_vars


(***************************************************************************)
(* The claims.                                                             *)
(***************************************************************************)
\* The instance the last call was made on, and its active socket.
Self == obj[last.p]
DataFds(p) == {fd \in FDs : ConnOf(ker, p, fd) # 0}

\* C1: read() or write() on an instance with no connection established
\* returns -1 and makes no ::read / ::write kernel call.
C1_UnconnectedIsRefused ==
  (last.op \in {"read", "write"} /\ ~last.estab)
    => (last.ret = -1 /\ last.kcalls = 0)

\* C2: close() returns 0 only when a connection is established at the call,
\* and -1 when none is (never connected or accepted, or closed before).
C2_CloseReportsState ==
  last.op = "close" => (last.ret = 0 <=> last.estab)

\* C3: over close() calls and destruction no descriptor the instance
\* acquired is passed to ::close a second time (said of an instance that
\* has assigned both its handles, so that no indeterminate value is read).
C3_NoDoubleRelease ==
  (last.op \in {"close", "destroy"} /\ Self.sset /\ Self.vset)
    => "dbl" \notin last.bad

\* C4: accept() releases the data socket of a previous accept() before it
\* replaces the handle: the server never has two data descriptors open.
C4_AtMostOneDataSocket ==
  Cardinality(DataFds("srv")) <= 1

\* C5: destruction releases every descriptor the instance still holds and
\* never passes to ::close a handle the instance did not open.
C5_DestructorClosesWhatIsOpen ==
  last.op = "destroy" => (gh[last.p].held = {} /\ "wild" \notin last.bad)

\* C6: on a connected pair, however writes and reads are chunked, what the
\* reads of one side have returned is at every moment a prefix of what the
\* writes of the other side have accepted.
C6_StreamPrefix ==
  \A c \in Conns, e \in Procs : IsPrefix(hist[c][e].got, hist[c][e].sent)
\* Three bytes accepted, so far two of them read, the last read a short one.
C6_ChunkedRead ==
  /\ last.op = "read" /\ last.p = "srv" /\ last.ret = 1
  /\ Len(hist[1]["srv"].sent) = MaxBytes
  /\ Len(hist[1]["srv"].got) = 2

\* C7: when the demonstration client finishes, the bytes it wrote, the
\* bytes the server read, the bytes the server echoed and the bytes the
\* client read back are the same number.
C7_EchoTotalsEqual ==
  pc["cli"] = "done"
    => (dv.wsum = dv.sread /\ dv.sread = dv.echoed /\ dv.echoed = dv.rsum)

\* C8: a connect() that fails reports the error to its caller: the process
\* goes on running and CONNECTED is not set on the instance.
C8_ConnectFailureIsReported ==
  (last.op = "connect" /\ last.ret # 0)
    => (Running(last.p) /\ ~Test(Self.status, CONNECTED))

\* C9: partial_read() never waits for data: once called it returns, whether
\* or not the peer ever sends, and when nothing had arrived at its read the
\* result is not positive.
C9_PartialReadNeverWaits ==
  \A p \in Procs :
    /\ [](mpc[p].at = "pr_unset" /\ mpc[p].nodata => mpc[p].num <= 0)
    /\ (mpc[p].at = "pr_read") ~> (mpc[p].at = "none")
\* partial_read on the open socket found nothing, the peer having sent
\* nothing at all, and reports would-block.
C9_WouldBlock ==
  /\ last.op = "partial_read" /\ last.p = "srv" /\ last.ret = -1
  /\ IsSock(ker, "srv", obj["srv"].sockfd)
  /\ hist[1]["srv"].sent = <<>>

\* C10: partial_read() makes one read between set_nonblock and
\* unset_nonblock; whatever it returns, the socket is in blocking mode
\* afterwards and a read() that finds nothing arrived waits.
C10_BlockingRestored ==
  last.op = "partial_read" =>
    /\ last.kcalls <= 1 /\ (last.estab => last.kcalls = 1)
    /\ ~NonBlocking(ker, last.p, Self.sockfd)
    /\ (IsSock(ker, last.p, Self.sockfd)
          /\ Arrived(ker, last.p, Self.sockfd) = <<>>
        => readBlocks(World, last.p))
\* partial_read returned data that had arrived, more being on its way.
C10_ReturnedData ==
  /\ last.op = "partial_read" /\ last.ret > 0
  /\ IsSock(ker, last.p, Self.sockfd)
  /\ Arrived(ker, last.p, Self.sockfd) = <<>>
  /\ ker.conn[1].wire[last.p] # <<>>

\* C11: set_nonblock() leaves the socket non-blocking and a second call
\* changes nothing more; unset_nonblock() leaves it blocking and a second
\* call changes nothing more; neither touches another file status flag.
C11_IdempotentToggles ==
  [][LET p == last'.p
         before == KGetFl(ker, p, obj[p].sockfd)
         after == KGetFl(ker', p, obj'[p].sockfd)
     IN /\ last'.op = "set_nonblock" =>
             /\ IsOpen(ker, p, obj[p].sockfd) => O_NONBLOCK \subseteq after
             /\ (set_nonblock(World, last.p).ker)' = ker'
             /\ after \ O_NONBLOCK = before \ O_NONBLOCK
        /\ last'.op = "unset_nonblock" =>
             /\ IsOpen(ker, p, obj[p].sockfd) => after \cap O_NONBLOCK = {}
             /\ (unset_nonblock(World, last.p).ker)' = ker'
             /\ after \ O_NONBLOCK = before \ O_NONBLOCK
    ]_vars
\* set_nonblock() was called on the server's blocking data socket, which is
\* now non-blocking.
C11_NowNonBlocking ==
  /\ last.op = "set_nonblock" /\ last.p = "srv" /\ mpc["srv"].at = "none"
  /\ IsSock(ker, "srv", obj["srv"].sockfd)
  /\ NonBlocking(ker, "srv", obj["srv"].sockfd)

\* C12: get_socket() returns -1 until the instance has opened a data socket
\* (a client by socket(), a server by accept()) and that descriptor from
\* then on; get_server_socket() returns -1 on a client and the listening
\* descriptor on a server.
C12_GettersReportSentinel ==
  \A p \in Procs :
    Callable(p) =>
      \A g \in Indet(p) :
        LET o == In(p, g).obj[p]
        IN /\ get_socket(o) = (IF o.sset THEN o.sockfd ELSE -1)
           /\ get_server_socket(o)
                = (IF p = "srv" /\ o.vset THEN o.serverfd ELSE -1)

\* C13: the demonstration server serves one connection at a time: it never
\* has two data descriptors open, it has none when it comes to accept(),
\* and after an accept() it holds the listening socket and the accepted
\* one only, every earlier data socket having been released.
C13_OneAtATime ==
  /\ Cardinality(DataFds("srv")) <= 1
  /\ AtLine("srv", "accept") => DataFds("srv") = {}
  /\ (last.op = "accept" /\ last.p = "srv" /\ last.ret = 0 /\ Running("srv"))
       => /\ gh["srv"].held = {obj["srv"].serverfd, obj["srv"].sockfd}
          /\ DataFds("srv") = {obj["srv"].sockfd}
\* The server has accepted its second connection.
C13_SecondAccept ==
  /\ last.op = "accept" /\ last.p = "srv" /\ last.ret = 0
  /\ ConnOf(ker, "srv", obj["srv"].sockfd) = 2
  /\ ker.conn[1].ends["srv"] = "closed"

\* C14: once the peer of the connection it serves has closed its end, the
\* demonstration server comes to read 0, leaves its echo loop, closes and
\* waits in accept() again.  Stated by what that rules out in any finite
\* run: the server process has not ended while a connection it has read
\* from has its peer end closed.
C14_ServerReturnsToAccept ==
  \A c \in Conns :
    (ker.conn[c].ends["cli"] = "closed" /\ hist[c]["srv"].got # <<>>)
      => Running("srv")

\* C15: a status flag is on only once the operation that owns it has
\* succeeded: on a server LISTENING only on a listening socket, OPEN_SOCKET
\* and CONNECTED only after an accept(); on a client CONNECTED only after a
\* connect().  So a newly constructed instance has none of them.
C15_FlagsForwardOnly ==
  /\ (Running("srv") /\ obj["srv"].life = "live") =>
       /\ Test(obj["srv"].status, LISTENING) =>
            /\ IsSock(ker, "srv", obj["srv"].serverfd)
            /\ ker.fdt["srv"][obj["srv"].serverfd].lstn
       /\ Test(obj["srv"].status, BitOr(OPEN_SOCKET, CONNECTED)) =>
            obj["srv"].sset
  /\ (Running("cli") /\ obj["cli"].life = "live") =>
       (Test(obj["cli"].status, CONNECTED) => gh["cli"].estab)

\* C16: close_sockfd() clears OPEN_SOCKET and the instance is no longer
\* connected, close_serverfd() clears OPEN_SERVER, and no other flag
\* changes: after the close_serverfd() / close_sockfd() that opens
\* construction the status is still INITIALIZED, and after a close() that
\* returned 0 OPEN_SOCKET and CONNECTED are off.
C16_CloseClearsItsFlag ==
  /\ At("srv", "is_socket") => obj["srv"].status = INITIALIZED
  /\ At("cli", "ic_sockopt") => obj["cli"].status = INITIALIZED
  /\ (last.op = "close" /\ last.ret = 0 /\ Self.life = "live") =>
       ~Test(Self.status, BitOr(OPEN_SOCKET, CONNECTED))

\* C17: in every state of an instance, the states between the steps of its
\* construction included, CONNECTED implies OPEN_SOCKET and LISTENING
\* implies OPEN_SERVER.
C17_FlagPrerequisites ==
  \A p \in Procs :
    obj[p].life \in {"ctor", "live"} =>
      /\ Test(obj[p].status, CONNECTED) => Test(obj[p].status, OPEN_SOCKET)
      /\ Test(obj[p].status, LISTENING) => Test(obj[p].status, OPEN_SERVER)

\* C18: SO_REUSEADDR is set on the very socket that is bound (server) or
\* connected (client), before the bind / connect: a bound socket of the
\* server and a connected socket of the client have the option on.
C18_ReuseOnTheSocket ==
  /\ \A fd \in FDs :
       (IsSock(ker, "srv", fd) /\ ker.fdt["srv"][fd].bound)
         => ker.fdt["srv"][fd].reuse
  /\ \A fd \in FDs :
       (IsSock(ker, "cli", fd) /\ ker.fdt["cli"][fd].conn # 0)
         => ker.fdt["cli"][fd].reuse

\* C19: on a constructed instance no operation changes port or ipaddr, and
\* a step of set_nonblock(), unset_nonblock(), read(), write() or
\* partial_read() leaves the status word of the instance as it was.
C19_FrameOfModeAndData ==
  [][\A p \in Procs :
       (obj[p].life = "live" /\ obj'[p].life \in {"live", "dead"}) =>
         /\ get_port(obj'[p]) = get_port(obj[p])
         /\ obj'[p].ipaddr = obj[p].ipaddr
         /\ (last'.p = p /\ last'.op \in {"set_nonblock", "unset_nonblock",
                                           "read", "write", "partial_read"})
              => obj'[p].status = obj[p].status]_vars
C19_ReadTheEnd ==
  /\ last.op = "read" /\ last.p = "srv" /\ last.ret = 0 /\ last.kcalls = 1
  /\ obj["srv"].life = "live" /\ Test(obj["srv"].status, CONNECTED)
  /\ obj["srv"].sset /\ PeerClosed(ker, "srv", obj["srv"].sockfd)
  /\ get_port(obj["srv"]) = DemoPort /\ obj["srv"].ipaddr = "127.0.0.1"

\* C20: the demonstration client, once connected to the demonstration
\* server, gets through its N iterations and reaches close(): every read
\* returns, every drain loop ends.  Stated by what that rules out in any
\* finite run: the client process has not ended between its connect() and
\* its close().
C20_ClientReachesClose ==
  gh["cli"].estab => Running("cli")

=============================================================================
